---- MODULE Spec2Model ----
(***************************************************************************)
(* JobBOSS inventory update: the direct workflow (update_inventory.py),    *)
(* the audit package generator (xml_generator.py) and the store they talk  *)
(* to (jobboss_mock.py), as one state machine.                             *)
(*                                                                         *)
(* Text.  A Python str is a sequence of pieces.  A piece is a TLA+ string  *)
(* standing for a run of characters: a whole tag ("<ID>"), a chunk of      *)
(* plain text without '<' ("TEST-MAT-001"), or the single character "<".   *)
(* The regular expressions of the source only tell '<' from other          *)
(* characters and look for whole tags, so they are computed on pieces.     *)
(* Insignificant white space between tags is left out of the documents,    *)
(* except where a pattern of the source names white space.                *)
(***************************************************************************)
EXTENDS Integers, Sequences, FiniteSets, TLC

\* Bounds of the model.
MaxTokens == 3   \* identifiers accepted from the input file
MaxWrites == 1   \* updates made by another client of the store
MaxFaults == 1   \* calls on the channel that go wrong in one run

--------------------------------------------------------------------------
(* Identifiers *)

IdUnknown == <<"NONEXISTENT-999">>
IdMat1 == <<"TEST-MAT-001">>
IdMat2 == <<"TEST-MAT-002">>
IdMat3 == <<"TEST-MAT-003">>
IdMarkup == <<"TEST", "<", "MAT">>
IdUnderscore == <<"TEST", "_", "MAT">>

\* The identifiers of the model in ascending order of Python's str
\* comparison (code points: '-' = 45 < '0'..'9' < '<' = 60 < 'A'..'Z'
\* < '_' = 95).
IdOrder == <<IdUnknown, IdMat1, IdMat2, IdMat3, IdMarkup, IdUnderscore>>

\* Identifiers that input lines carry.
InputIds == {IdUnknown, IdMat1, IdMat2, IdMarkup}

IdRank(id) == CHOOSE i \in 1..Len(IdOrder) : IdOrder[i] = id

\* Lines of an input file: an identifier, an identifier with white space
\* around it, a comment, a blank line.
CommentLine == <<"#", "TEST-MAT-001">>
BlankLine == <<" ">>
PaddedLine == <<" ", "TEST-MAT-002", " ">>
RawLines == InputIds \cup {CommentLine, BlankLine, PaddedLine}

\* Lines of an input file of the generator: those, and an identifier whose
\* file name is the file name of another (to the executor it is one more
\* identifier that the store does not hold).
GeneratorLines == RawLines \cup {IdUnderscore}

--------------------------------------------------------------------------
(* str helpers *)

None == <<>>

RECURSIVE LStrip(_)
LStrip(s) == IF s # <<>> /\ Head(s) = " " THEN LStrip(Tail(s)) ELSE s

RECURSIVE RStrip(_)
RStrip(s) ==
    IF s # <<>> /\ s[Len(s)] = " " THEN RStrip(SubSeq(s, 1, Len(s) - 1)) ELSE s

\* str.strip()
Strip(s) == RStrip(LStrip(s))

\* str.startswith(piece)
StartsWith(s, piece) == s # <<>> /\ Head(s) = piece

\* `sub in s` for strs
Contains(s, sub) ==
    \E p \in 1..(Len(s) - Len(sub) + 1) : SubSeq(s, p, p + Len(sub) - 1) = sub

\* Pieces whose first character is '<'.
LtPieces ==
    { "<", "<?xml version=\"1.0\" encoding=\"UTF-8\"?>",
      "<JBXML>", "</JBXML>", "<JBXMLRequest>", "</JBXMLRequest>",
      "<JBXMLRequest Session=\"", "<JBXMLRespond>", "</JBXMLRespond>",
      "<SessionID>", "</SessionID>",
      "<MaterialQueryRq>", "</MaterialQueryRq>",
      "<MaterialQueryFilter>", "</MaterialQueryFilter>",
      "<ID>", "</ID>",
      "<IncludeMaterialLocations>", "</IncludeMaterialLocations>",
      "<IncludeCustomerParts>", "</IncludeCustomerParts>",
      "<IncludePriceBreaks>", "</IncludePriceBreaks>",
      "<MaterialModRq>", "</MaterialModRq>", "<MaterialMod>", "</MaterialMod>",
      "<LastUpdated>", "</LastUpdated>",
      "<AdjustOnHandQty>", "</AdjustOnHandQty>", "<ReasonRef ID=\"",
      "<Quantity>", "</Quantity>",
      "<MaterialQueryRs>", "</MaterialQueryRs>", "<MaterialModRs>", "</MaterialModRs>",
      "<StatusCode>", "</StatusCode>", "<StatusMessage>", "</StatusMessage>",
      "<ErrorMessage>", "</ErrorMessage>",
      "<Material>", "</Material>", "<MaterialRet>", "</MaterialRet>",
      "<Description>", "</Description>", "<OnHand>", "</OnHand>" }

\* The end of the longest run of [^<] pieces that starts at i: the first
\* position from i on that holds a '<' piece, or Len(s) + 1.
RECURSIVE RunEnd(_, _)
RunEnd(s, i) ==
    IF i > Len(s) \/ s[i] \in LtPieces THEN i ELSE RunEnd(s, i + 1)

\* open([^<]+)close matches with open at position p.
MatchAt(s, p, open, close) ==
    /\ s[p] = open
    /\ LET e == RunEnd(s, p + 1)
       IN  e > p + 1 /\ e <= Len(s) /\ s[e] = close

\* re.search(r'open([^<]+)close', s): group 1 of the leftmost match, or None.
ReSearch(s, open, close) ==
    LET hits == {p \in 1..Len(s) : MatchAt(s, p, open, close)}
    IN  IF hits = {} THEN None
        ELSE LET p == CHOOSE q \in hits : \A r \in hits : q <= r
             IN  SubSeq(s, p + 1, RunEnd(s, p + 1) - 1)

\* The end of a run of white space that starts at i.
RECURSIVE SpaceEnd(_, _)
SpaceEnd(s, i) ==
    IF i <= Len(s) /\ s[i] = " " THEN SpaceEnd(s, i + 1) ELSE i

--------------------------------------------------------------------------
(* Input processing *)

\* load_material_ids: the test applied to each line of the file.
KeepLine(line) == Strip(line) # <<>> /\ ~StartsWith(Strip(line), "#")

\* Counter(material_ids): one pass over the list, adding 1 per occurrence.
RECURSIVE Counter(_)
Counter(ids) ==
    IF ids = <<>> THEN [x \in {} |-> 0]
    ELSE LET rest == Counter(SubSeq(ids, 1, Len(ids) - 1))
             last == ids[Len(ids)]
         IN  [x \in DOMAIN rest \cup {last} |->
                 IF x = last
                 THEN (IF x \in DOMAIN rest THEN rest[x] ELSE 0) + 1
                 ELSE rest[x]]

\* A faulty aggregation: a repeated identifier overwrites its entry.
CountMaterialsOverwrite(ids) ==
    [x \in {ids[i] : i \in DOMAIN ids} |-> -1]

\* count_materials: {mat_id: -count}
CountMaterials(ids) ==
    LET counts == Counter(ids)
    IN  [x \in DOMAIN counts |-> -counts[x]]

\* sorted(quantity_changes.items()): the keys in ascending order.
RECURSIVE SortedKeys(_)
SortedKeys(keys) ==
    IF keys = {} THEN <<>>
    ELSE LET m == CHOOSE k \in keys : \A o \in keys : IdRank(k) <= IdRank(o)
         IN  <<m>> \o SortedKeys(keys \ {m})

Abs(n) == IF n < 0 THEN -n ELSE n

\* sum(f[k] for k in keys)
RECURSIVE SumOver(_, _)
SumOver(f, keys) ==
    IF keys = {} THEN 0
    ELSE LET k == CHOOSE x \in keys : TRUE
         IN  f[k] + SumOver(f, keys \ {k})

--------------------------------------------------------------------------
(* Request documents of the direct workflow (update_inventory.py) *)

XmlDecl == "<?xml version=\"1.0\" encoding=\"UTF-8\"?>"

\* f"{n}" for an int
IntStr(n) == <<ToString(n)>>

\* A query document that carries the placeholder of the generated
\* documents in place of the session ID.
create_query_xml_placeholder(sid, material_id) ==
    <<XmlDecl, "<JBXML>", "<JBXMLRequest>", "<SessionID>", "{{SESSION_ID}}">>
    \o <<"</SessionID>", "<MaterialQueryRq>", "<MaterialQueryFilter>", "<ID>">>
    \o material_id
    \o <<"</ID>",
         "<IncludeMaterialLocations>", "false", "</IncludeMaterialLocations>",
         "<IncludeCustomerParts>", "false", "</IncludeCustomerParts>",
         "<IncludePriceBreaks>", "false", "</IncludePriceBreaks>",
         "</MaterialQueryFilter>", "</MaterialQueryRq>",
         "</JBXMLRequest>", "</JBXML>">>

\* create_query_xml
create_query_xml(sid, material_id) ==
    <<XmlDecl, "<JBXML>", "<JBXMLRequest>", "<SessionID>">> \o sid
    \o <<"</SessionID>", "<MaterialQueryRq>", "<MaterialQueryFilter>", "<ID>">>
    \o material_id
    \o <<"</ID>",
         "<IncludeMaterialLocations>", "false", "</IncludeMaterialLocations>",
         "<IncludeCustomerParts>", "false", "</IncludeCustomerParts>",
         "<IncludePriceBreaks>", "false", "</IncludePriceBreaks>",
         "</MaterialQueryFilter>", "</MaterialQueryRq>",
         "</JBXMLRequest>", "</JBXML>">>

\* create_update_xml, from the start of the document to the end of its ID field
UpdateHead(sid, material_id) ==
    <<XmlDecl, "<JBXML>", "<JBXMLRequest>", "<SessionID>">> \o sid
    \o <<"</SessionID>", "<MaterialModRq>", "<MaterialMod>", " ", "<ID>">>
    \o material_id
    \o <<"</ID>">>

\* create_update_xml
create_update_xml(sid, material_id, lu, quantity, reason) ==
    UpdateHead(sid, material_id)
    \o <<"<LastUpdated>">> \o lu
    \o <<"</LastUpdated>", "</MaterialMod>", "<AdjustOnHandQty>", "<ReasonRef ID=\"">>
    \o reason
    \o <<"\"/>", "<Quantity>">> \o IntStr(quantity)
    \o <<"</Quantity>", "</AdjustOnHandQty>", "</MaterialModRq>",
         "</JBXMLRequest>", "</JBXML>">>

--------------------------------------------------------------------------
(* Response parsing (update_inventory.py) *)

\* A parser that takes the OnHand field for the token.
parse_last_updated_on_hand(response) ==
    ReSearch(response, "<OnHand>", "</OnHand>")

\* parse_last_updated
parse_last_updated(response) ==
    ReSearch(response, "<LastUpdated>", "</LastUpdated>")

\* Pieces of status text whose first character is '0'.
ZeroLed == {"0", "01"}

\* re.search(r'<StatusCode>([^0][^<]*)</StatusCode>', s)
ReSearchStatus(s) ==
    LET ok(p) == /\ s[p] = "<StatusCode>"
                 /\ p + 1 <= Len(s)
                 /\ s[p + 1] \notin LtPieces
                 /\ s[p + 1] \notin ZeroLed
                 /\ LET e == RunEnd(s, p + 1)
                    IN  e <= Len(s) /\ s[e] = "</StatusCode>"
        hits == {p \in 1..Len(s) : ok(p)}
    IN  IF hits = {} THEN None
        ELSE LET p == CHOOSE q \in hits : \A r \in hits : q <= r
             IN  SubSeq(s, p + 1, RunEnd(s, p + 1) - 1)

\* A parse_error that reports the status code only, never the message.
parse_error_code_only(response) ==
    IF Contains(response, <<"<StatusCode>", "0", "</StatusCode>">>) THEN None
    ELSE IF ReSearchStatus(response) # None
         THEN <<"Status code: ">> \o ReSearchStatus(response)
    ELSE None

\* parse_error
parse_error(response) ==
    IF Contains(response, <<"<StatusCode>", "0", "</StatusCode>">>) THEN None
    ELSE IF ReSearch(response, "<StatusMessage>", "</StatusMessage>") # None
         THEN ReSearch(response, "<StatusMessage>", "</StatusMessage>")
    ELSE IF ReSearch(response, "<ErrorMessage>", "</ErrorMessage>") # None
         THEN ReSearch(response, "<ErrorMessage>", "</ErrorMessage>")
    ELSE IF ReSearchStatus(response) # None
         THEN <<"Status code: ">> \o ReSearchStatus(response)
    ELSE None

--------------------------------------------------------------------------
(* The store (jobboss_mock.py, MockJobBOSS) *)

\* MockJobBOSS.__init__: the simulated material database.
InitMaterials ==
    [id \in {IdMat1, IdMat2, IdMat3} |->
        IF id = IdMat1
        THEN [description |-> "Test Material 1", on_hand |-> 100, is_float |-> FALSE,
              last_updated |-> <<"2025-06-15T10:30:00">>]
        ELSE IF id = IdMat2
        THEN [description |-> "Test Material 2", on_hand |-> 50, is_float |-> FALSE,
              last_updated |-> <<"2025-08-22T14:15:30">>]
        ELSE [description |-> "Test Material 3", on_hand |-> 25, is_float |-> FALSE,
              last_updated |-> <<"2025-12-01T09:00:00">>]]

\* datetime.now().isoformat() at time t
Isoformat(t) == <<"now+" \o ToString(t)>>

\* f"MOCK-SESSION-{datetime.now().strftime('%Y%m%d%H%M%S')}" at time t
MockSessionId(t) == <<"MOCK-SESSION-" \o ToString(t)>>

\* f"{mat['on_hand']}": an int until the first update adds a float to it.
OnHandStr(mat) ==
    IF mat.is_float THEN <<ToString(mat.on_hand) \o ".0">> ELSE <<ToString(mat.on_hand)>>

\* _error_response
error_response(message) ==
    <<XmlDecl, "<JBXML>", "<JBXMLRespond>", "<StatusCode>", "1", "</StatusCode>",
      "<StatusMessage>">> \o message
    \o <<"</StatusMessage>", "</JBXMLRespond>", "</JBXML>">>

\* _handle_material_query
handle_material_query(materials, xml_request) ==
    LET material_id == ReSearch(xml_request, "<ID>", "</ID>")
    IN  IF material_id = None THEN error_response(<<"No material ID in query">>)
        ELSE IF material_id \in DOMAIN materials
        THEN LET mat == materials[material_id]
             IN  <<XmlDecl, "<JBXML>", "<JBXMLRespond>", "<MaterialQueryRs>",
                   "<StatusCode>", "0", "</StatusCode>",
                   "<StatusMessage>", "Success", "</StatusMessage>",
                   "<Material>", "<ID>">> \o material_id
                 \o <<"</ID>", "<Description>", mat.description, "</Description>",
                      "<OnHand>">> \o OnHandStr(mat)
                 \o <<"</OnHand>", "<LastUpdated>">> \o mat.last_updated
                 \o <<"</LastUpdated>", "</Material>", "</MaterialQueryRs>",
                      "</JBXMLRespond>", "</JBXML>">>
        ELSE error_response(<<"Material not found: ">> \o material_id)

\* re.search(r'<MaterialMod>\s*<ID>([^<]+)</ID>', s, re.DOTALL)
ReSearchModId(s) ==
    LET ok(p) == /\ s[p] = "<MaterialMod>"
                 /\ LET q == SpaceEnd(s, p + 1)
                    IN  q <= Len(s) /\ MatchAt(s, q, "<ID>", "</ID>")
        hits == {p \in 1..Len(s) : ok(p)}
    IN  IF hits = {} THEN None
        ELSE LET p == CHOOSE q \in hits : \A r \in hits : q <= r
                 i == SpaceEnd(s, p + 1)
             IN  SubSeq(s, i + 1, RunEnd(s, i + 1) - 1)

\* The quantities float() reads back in the model.
Quantities == -(MaxTokens + 2)..(MaxTokens + 2)

\* float(text) succeeds
IsFloat(text) == Len(text) = 1 /\ \E n \in Quantities : ToString(n) = text[1]

\* float(text)
Float(text) == CHOOSE n \in Quantities : ToString(n) = text[1]

\* A store that never finds the tokens different.
TokenMismatchNever(submitted, current) == FALSE

\* submitted_last_updated != mat['last_updated']
TokenMismatch(submitted, current) == submitted # current

\* A store that adds the quantity and keeps the old token.
ApplyUpdateKeepToken(mat, quantity, now) ==
    [mat EXCEPT !.on_hand = @ + quantity, !.is_float = TRUE]

\* mat['on_hand'] += quantity; mat['last_updated'] = datetime.now().isoformat()
ApplyUpdate(mat, quantity, now) ==
    [mat EXCEPT !.on_hand = @ + quantity, !.is_float = TRUE,
                !.last_updated = Isoformat(now)]

\* A mismatch message that names no token.
MismatchMessageBare(expected, submitted) == <<"LastUpdated mismatch">>

\* f"LastUpdated mismatch. Expected: {material['last_updated']}, Got: {last_updated}"
MismatchMessage(expected, submitted) ==
    <<"LastUpdated mismatch. Expected: ">> \o expected \o <<", Got: ">> \o submitted

\* _handle_material_mod at time now: the response, the material database
\* after the call, whether float() raised, whether the update was applied.
handle_material_mod(materials, xml_request, now) ==
    LET material_id == ReSearchModId(xml_request)
        submitted == ReSearch(xml_request, "<LastUpdated>", "</LastUpdated>")
        qtext == ReSearch(xml_request, "<Quantity>", "</Quantity>")
        none(msg) == [response |-> error_response(msg), materials |-> materials,
                      raised |-> FALSE, applied |-> FALSE]
    IN  IF material_id = None THEN none(<<"No material ID in update">>)
        ELSE IF submitted = None THEN none(<<"No LastUpdated in update">>)
        ELSE IF qtext = None THEN none(<<"No Quantity in update">>)
        ELSE IF ~IsFloat(qtext)
        THEN [response |-> None, materials |-> materials,
              raised |-> TRUE, applied |-> FALSE]
        ELSE IF material_id \notin DOMAIN materials
        THEN none(<<"Material not found: ">> \o material_id)
        ELSE IF TokenMismatch(submitted, materials[material_id].last_updated)
        THEN none(MismatchMessage(materials[material_id].last_updated, submitted))
        ELSE LET mat == ApplyUpdate(materials[material_id], Float(qtext), now)
             IN  [response |->
                      <<XmlDecl, "<JBXML>", "<JBXMLRespond>", "<MaterialModRs>",
                        "<StatusCode>", "0", "</StatusCode>",
                        "<StatusMessage>", "Success", "</StatusMessage>",
                        "<MaterialRet>", "<ID>">> \o material_id
                      \o <<"</ID>", "<OnHand>">> \o OnHandStr(mat)
                      \o <<"</OnHand>", "<LastUpdated>">> \o mat.last_updated
                      \o <<"</LastUpdated>", "</MaterialRet>", "</MaterialModRs>",
                           "</JBXMLRespond>", "</JBXML>">>,
                  materials |-> [materials EXCEPT ![material_id] = mat],
                  raised |-> FALSE, applied |-> TRUE]

\* ProcessRequest, after the request is logged: dispatch on the request type.
ProcessRequest(materials, xml_request, now) ==
    IF Contains(xml_request, <<"<MaterialQueryRq>">>)
    THEN [response |-> handle_material_query(materials, xml_request),
          materials |-> materials, raised |-> FALSE, applied |-> FALSE]
    ELSE IF Contains(xml_request, <<"<MaterialModRq>">>)
    THEN handle_material_mod(materials, xml_request, now)
    ELSE [response |-> error_response(<<"Unknown request type">>),
          materials |-> materials, raised |-> FALSE, applied |-> FALSE]

--------------------------------------------------------------------------
(* Documents and package of the two-phase workflow (xml_generator.py) *)

\* create_material_query_xml
create_material_query_xml(session_id_placeholder, material_id) ==
    <<XmlDecl, "<JBXML>", "<JBXMLRequest Session=\"">> \o session_id_placeholder
    \o <<"\">", "<MaterialQueryRq>", "<MaterialQueryFilter>", "<ID>">>
    \o material_id
    \o <<"</ID>",
         "<IncludeMaterialLocations>", "false", "</IncludeMaterialLocations>",
         "<IncludeCustomerParts>", "false", "</IncludeCustomerParts>",
         "<IncludePriceBreaks>", "false", "</IncludePriceBreaks>",
         "</MaterialQueryFilter>", "</MaterialQueryRq>",
         "</JBXMLRequest>", "</JBXML>">>

\* create_material_mod_xml
create_material_mod_xml(session_id_placeholder, material_id, last_updated_placeholder, quantity, reason) ==
    <<XmlDecl, "<JBXML>", "<JBXMLRequest Session=\"">> \o session_id_placeholder
    \o <<"\">", "<MaterialModRq>", "<MaterialMod>", " ", "<ID>">>
    \o material_id
    \o <<"</ID>", "<LastUpdated>">> \o last_updated_placeholder
    \o <<"</LastUpdated>", "</MaterialMod>", "<AdjustOnHandQty>", "<ReasonRef ID=\"">>
    \o reason
    \o <<"\"/>", "<Quantity>">> \o IntStr(quantity)
    \o <<"</Quantity>", "</AdjustOnHandQty>", "</MaterialModRq>",
         "</JBXMLRequest>", "</JBXML>">>

\* Pieces with a character that is neither alphanumeric nor '-' nor '_'.
UnsafePieces == {"<", " "}

\* "".join(c if c.isalnum() or c in '-_' else '_' for c in material_id)
RECURSIVE SafeId(_)
SafeId(material_id) ==
    IF material_id = <<>> THEN <<>>
    ELSE <<IF Head(material_id) \in UnsafePieces THEN "_" ELSE Head(material_id)>>
         \o SafeId(Tail(material_id))

query_file(material_id) == <<"query_">> \o SafeId(material_id) \o <<".xml">>
update_file(material_id) == <<"update_">> \o SafeId(material_id) \o <<".xml">>

\* A manifest entry whose occurrences is the signed quantity.
ManifestEntrySigned(material_id, quantity) ==
    [material_id |-> material_id, quantity_change |-> quantity,
     occurrences |-> quantity,
     query_file |-> query_file(material_id), update_file |-> update_file(material_id)]

\* The manifest entry appended for one material.
ManifestEntry(material_id, quantity) ==
    [material_id |-> material_id, quantity_change |-> quantity,
     occurrences |-> Abs(quantity),
     query_file |-> query_file(material_id), update_file |-> update_file(material_id)]

\* The loop of generate_update_package over the sorted items: the manifest
\* entries, in order.
RECURSIVE ManifestMaterials(_, _)
ManifestMaterials(qc, keys) ==
    IF keys = <<>> THEN <<>>
    ELSE <<ManifestEntry(Head(keys), qc[Head(keys)])>>
         \o ManifestMaterials(qc, Tail(keys))

\* The loop of generate_update_package over the sorted items: the files of
\* the output directory after it (a later write to a name replaces an earlier).
RECURSIVE WriteFiles(_, _, _, _)
WriteFiles(dir, qc, keys, reason) ==
    IF keys = <<>> THEN dir
    ELSE LET material_id == Head(keys)
             q == create_material_query_xml(<<"{{SESSION_ID}}">>, material_id)
             u == create_material_mod_xml(<<"{{SESSION_ID}}">>, material_id,
                                          <<"{{LAST_UPDATED}}">>, qc[material_id], reason)
             names == DOMAIN dir \cup {query_file(material_id), update_file(material_id)}
             next == [n \in names |->
                         IF n = update_file(material_id) THEN u
                         ELSE IF n = query_file(material_id) THEN q
                         ELSE dir[n]]
         IN  WriteFiles(next, qc, Tail(keys), reason)

\* A manifest that sums the signed quantities.
TotalPiecesSigned(qc) == SumOver(qc, DOMAIN qc)

\* sum(abs(q) for q in quantity_changes.values())
TotalPieces(qc) == SumOver([k \in DOMAIN qc |-> Abs(qc[k])], DOMAIN qc)

NoManifest ==
    [generated_at |-> None, reason_id |-> None, total_materials |-> 0,
     total_pieces |-> 0, materials |-> <<>>, input_ids |-> <<>>]

\* generate_update_package: the manifest it returns and writes.
Manifest(ids, reason, now) ==
    LET qc == CountMaterials(ids)
    IN  [generated_at |-> Isoformat(now), reason_id |-> reason,
         total_materials |-> Cardinality(DOMAIN qc),
         total_pieces |-> TotalPieces(qc),
         materials |-> ManifestMaterials(qc, SortedKeys(DOMAIN qc)),
         input_ids |-> ids]

--------------------------------------------------------------------------
(* State *)

VARIABLES
    program,          \* which script runs: "update_inventory" or "xml_generator"
    dry_run,          \* run_updates: dry_run
    username,         \* run_updates: username
    password,         \* run_updates: password
    reason_id,        \* the reason code given by the caller
    pc,               \* the place of the script in its code
    material_ids,     \* load_material_ids: the list built so far
    quantity_changes, \* run_updates: quantity_changes
    idx,              \* run_updates: place in sorted(quantity_changes.items())
    session_id,       \* run_updates: session_id
    last_updated,     \* run_updates: last_updated
    response,         \* run_updates: response (parse_error's argument)
    error,            \* run_updates: error (what parse_error returned)
    results,          \* run_updates: results
    raising,          \* an exception is on its way out of run_updates
    session_active,   \* MockJobBOSS.session_active
    mock_session_id,  \* MockJobBOSS.session_id
    request_log,      \* MockJobBOSS.request_log
    materials,        \* MockJobBOSS.materials
    clock,            \* the time datetime.now() reads
    manifest,         \* generate_update_package: the manifest written
    files,            \* the XML files of the output directory, by name
    calls,            \* history: the calls made on the channel, in order
    mod_log,          \* history: the updates the store decided, in order
    writes,           \* history: updates made by another client
    faults,           \* history: calls on the channel that went wrong
    exit_code         \* the exit status of the process, once main has ended

vars ==
    <<program, dry_run, username, password, reason_id, pc, material_ids,
      quantity_changes, idx, session_id, last_updated, response, error, results,
      raising, session_active, mock_session_id, request_log, materials, clock,
      manifest, files, calls, mod_log, writes, faults, exit_code>>

inputVars == <<program, dry_run, username, password, reason_id>>
runVars ==
    <<quantity_changes, idx, session_id, last_updated, response, error, results, raising>>
mockVars == <<session_active, mock_session_id, request_log, materials, clock>>
genVars == <<manifest, files>>
histVars == <<calls, mod_log, writes, faults>>

\* DEFAULT_REASON
DEFAULT_REASON == <<"ADJUST">>

EmptyDict == [x \in {} |-> 0]

\* results = {"success": [], "failed": [], "errors": []}
EmptyResults == [success |-> <<>>, failed |-> <<>>, errors |-> <<>>]

\* str(e) of an exception raised by the channel
ComError == <<"com_error">>

\* A response document without any status field.
NoStatusDoc == <<XmlDecl, "<JBXML>", "<JBXMLRespond>", "</JBXMLRespond>", "</JBXML>">>

\* A response document without any status field that carries the record's
\* LastUpdated.
NoStatusTokenDoc(token) ==
    <<XmlDecl, "<JBXML>", "<JBXMLRespond>", "<MaterialQueryRs>", "<Material>",
      "<LastUpdated>">> \o token
    \o <<"</LastUpdated>", "</Material>", "</MaterialQueryRs>",
         "</JBXMLRespond>", "</JBXML>">>

\* What the channel does with a request: deliver it and the response
\* ("ok"), raise before the store sees it ("raise"), raise after the store
\* handled it ("raise_applied"), deliver a response without a status field
\* ("no_status"; "no_status_token" when it still carries the record's
\* LastUpdated), return something that is not a str ("not_str").
QueryChannel == {"ok", "raise", "no_status", "no_status_token", "not_str"}
UpdateChannel == {"ok", "raise", "raise_applied", "no_status", "not_str"}

\* The quantities with which another client adjusts a material.
OtherQuantities == {5}

Init ==
    /\ program \in {"update_inventory", "xml_generator"}
    /\ IF program = "update_inventory"
       THEN /\ dry_run \in BOOLEAN
            /\ username \in {<<>>, <<"test_user">>}
            /\ password \in {<<>>, <<"test_pass">>}
            /\ reason_id = DEFAULT_REASON
       ELSE /\ dry_run = FALSE
            /\ username = <<>>
            /\ password = <<>>
            /\ reason_id \in {<<>>, <<"TEST-REASON">>}
    /\ pc = "load"
    /\ material_ids = <<>>
    /\ quantity_changes = EmptyDict
    /\ idx = 0
    /\ session_id = None
    /\ last_updated = None
    /\ response = None
    /\ error = None
    /\ results = EmptyResults
    /\ raising = FALSE
    /\ session_active = FALSE
    /\ mock_session_id = None
    /\ request_log = <<>>
    /\ materials = InitMaterials
    /\ clock = 1
    /\ manifest = NoManifest
    /\ files = EmptyDict
    /\ calls = <<>>
    /\ mod_log = <<>>
    /\ writes = 0
    /\ faults = 0
    /\ exit_code = None

--------------------------------------------------------------------------
(* load_material_ids *)

\* One line of the file is read: kept, stripped, or skipped.
LoadLine ==
    /\ pc = "load"
    /\ \E line \in IF program = "xml_generator" THEN GeneratorLines ELSE RawLines :
          IF KeepLine(line)
          THEN /\ Len(material_ids) < MaxTokens
               /\ material_ids' = Append(material_ids, Strip(line))
          ELSE material_ids' = material_ids
    /\ UNCHANGED <<exit_code, pc, inputVars, runVars, mockVars, genVars, histVars>>

\* The end of the file: back in the caller.
LoadEnd ==
    /\ pc = "load"
    /\ pc' = IF program = "update_inventory" THEN "check_input" ELSE "gen_main"
    /\ UNCHANGED <<exit_code, material_ids, inputVars, runVars, mockVars, genVars, histVars>>

--------------------------------------------------------------------------
(* run_updates *)

\* A run that goes on to connect whatever dry_run says.
StopsBeforeConnectNever(ids, dry) == ids = <<>>

\* A run that goes on to connect with an empty list of material IDs.
StopsBeforeConnectDryOnly(ids, dry) == dry

\* The early returns of run_updates before it connects: no material IDs,
\* or a dry run.
StopsBeforeConnect(ids, dry) == ids = <<>> \/ dry

\* From the empty-input test to the dry-run test.
Prepare ==
    /\ pc = "check_input"
    /\ quantity_changes' =
          IF material_ids = <<>> THEN quantity_changes ELSE CountMaterials(material_ids)
    /\ pc' = IF StopsBeforeConnect(material_ids, dry_run) THEN "returned" ELSE "connect"
    /\ UNCHANGED <<response, error, exit_code, material_ids, inputVars, idx,
                   session_id, last_updated, results,
                   raising, mockVars, genVars, histVars>>

\* An entry of calls: the operation, its argument, how it went ("ok" or the
\* way it went wrong) and the str it returned (None when it returned none).
Call(op, arg, out, ret) == [op |-> op, arg |-> arg, out |-> out, ret |-> ret]

\* win32com.client.Dispatch: the channel object, or an exception.
Connect ==
    /\ pc = "connect"
    /\ \E ok \in BOOLEAN :
          /\ calls' = Append(calls, Call("Dispatch", <<>>,
                                        IF ok THEN "ok" ELSE "raise", None))
          /\ IF ok
             THEN pc' = "create_session" /\ results' = results
             ELSE /\ pc' = "returned"
                  /\ results' = [results EXCEPT !.errors =
                        Append(@, <<"Failed to create COM object: ">> \o ComError)]
    /\ UNCHANGED <<response, error, exit_code, material_ids, inputVars,
                   quantity_changes, idx, session_id,
                   last_updated, raising, mockVars, genVars, mod_log, writes, faults>>

\* MockJobBOSS.CreateSession: the session ID returned.
MockCreateSession(user, pass, now) ==
    IF user # <<>> /\ pass # <<>> THEN MockSessionId(now) ELSE <<>>

\* A run that goes into the loop with whatever CreateSession returned.
SessionRefusedNever(sid) == FALSE

\* not session_id
SessionRefused(sid) == sid = <<>>

\* jb.CreateSession and the test of what it returned.
CreateSession ==
    /\ pc = "create_session"
    /\ \E ch \in {"ok", "raise"} :
          LET sid == MockCreateSession(username, password, clock)
          IN  IF ch = "raise"
              THEN /\ calls' = Append(calls, Call("CreateSession", username, "raise", None))
                   /\ results' = [results EXCEPT !.errors =
                         Append(@, <<"Session failed: ">> \o ComError)]
                   /\ pc' = "returned"
                   /\ UNCHANGED <<session_id, idx, session_active, mock_session_id>>
              ELSE /\ calls' = Append(calls, Call("CreateSession", username,
                                                  IF sid = <<>> THEN "empty" ELSE "ok",
                                                  sid))
                   /\ session_id' = sid
                   /\ session_active' = (sid # <<>> \/ session_active)
                   /\ mock_session_id' = IF sid # <<>> THEN sid ELSE mock_session_id
                   /\ IF SessionRefused(sid)
                      THEN /\ results' = [results EXCEPT !.errors =
                                 Append(@, <<"Session failed: ">>)]
                           /\ pc' = "returned"
                           /\ idx' = idx
                      ELSE /\ results' = results
                           /\ pc' = "query"
                           /\ idx' = 1
    /\ UNCHANGED <<response, error, exit_code, material_ids, inputVars,
                   quantity_changes, last_updated, raising,
                   request_log, materials, clock, genVars, mod_log, writes, faults>>

\* The keys of a dict built from ids, in the order a loop without sorted()
\* meets them: by first occurrence.
RECURSIVE FirstOccurrences(_)
FirstOccurrences(ids) ==
    IF ids = <<>> THEN <<>>
    ELSE LET rest == FirstOccurrences(SubSeq(ids, 1, Len(ids) - 1))
             x == ids[Len(ids)]
         IN  IF \E i \in DOMAIN rest : rest[i] = x THEN rest ELSE Append(rest, x)

\* quantity_changes.items(), not sorted.
ItemsInputOrder == FirstOccurrences(material_ids)

\* A loop over the tokens of the input, one turn per occurrence.
ItemsPerToken == material_ids

\* sorted(quantity_changes.items())
Items == SortedKeys(DOMAIN quantity_changes)

\* A loop that ends at the first item that fails.
AfterFailureStop(i, n) == "close"

\* The place after item i of n is done: the next item, or the end of the loop.
AfterItem(i, n) == IF i < n THEN "query" ELSE "close"

\* `continue` after a failure is recorded.
AfterFailure(i, n) == AfterItem(i, n)

Failed(id, err) ==
    [results EXCEPT !.failed =
        Append(@, [id |-> id, qty |-> quantity_changes[id], error |-> err])]

Succeeded(id) ==
    [results EXCEPT !.success = Append(@, [id |-> id, qty |-> quantity_changes[id]])]

\* The entry of mod_log for an update request the store handled.
ModEntry(xml_request, out, by) ==
    LET id == ReSearchModId(xml_request)
    IN  [id |-> id,
         submitted |-> ReSearch(xml_request, "<LastUpdated>", "</LastUpdated>"),
         expected |-> IF id \in DOMAIN materials THEN materials[id].last_updated ELSE None,
         qtext |-> ReSearch(xml_request, "<Quantity>", "</Quantity>"),
         applied |-> out.applied, by |-> by]

\* One item of the loop, first half: the query and what is made of its response.
\* (The locals of the loop body are bound once, as \E x \in {value}.)
QueryStep ==
    /\ pc = "query"
    /\ \E ch \in QueryChannel :
          /\ ch # "ok" => faults < MaxFaults
          /\ faults' = IF ch = "ok" THEN faults ELSE faults + 1
          /\ ch = "no_status_token" => Items[idx] \in DOMAIN materials
          /\ \E material_id \in {Items[idx]} :
             \E query_xml \in {create_query_xml(session_id, material_id)} :
             \E out \in {ProcessRequest(materials, query_xml, clock)} :
             \E rsp \in {IF ch = "ok" THEN out.response
                        ELSE IF ch = "no_status_token"
                        THEN NoStatusTokenDoc(materials[material_id].last_updated)
                        ELSE NoStatusDoc} :
             \E err \in {parse_error(rsp)} :
             \E n \in {Len(Items)} :
                 /\ calls' = Append(calls, Call("ProcessRequest", query_xml, ch,
                                             IF ch \in {"raise", "not_str"}
                                             THEN None ELSE rsp))
                 /\ response' = IF ch = "raise" THEN response
                                ELSE IF ch = "not_str" THEN None ELSE rsp
                 /\ error' = IF ch \in {"raise", "not_str"} THEN error ELSE err
                 /\ request_log' =
                       IF ch = "raise" THEN request_log ELSE Append(request_log, query_xml)
                 /\ IF ch = "raise"
                    THEN /\ results' = Failed(material_id, ComError)
                         /\ pc' = AfterFailure(idx, n)
                         /\ idx' = idx + 1
                         /\ UNCHANGED <<last_updated, raising>>
                    ELSE IF ch = "not_str"
                    THEN /\ raising' = TRUE
                         /\ pc' = "close"
                         /\ UNCHANGED <<results, idx, last_updated>>
                    ELSE IF err # None
                    THEN /\ results' = Failed(material_id, err)
                         /\ pc' = AfterFailure(idx, n)
                         /\ idx' = idx + 1
                         /\ UNCHANGED <<last_updated, raising>>
                    ELSE IF parse_last_updated(rsp) = None
                    THEN /\ results' = Failed(material_id, <<"Not found">>)
                         /\ pc' = AfterFailure(idx, n)
                         /\ idx' = idx + 1
                         /\ UNCHANGED <<last_updated, raising>>
                    ELSE /\ last_updated' = parse_last_updated(rsp)
                         /\ pc' = "update"
                         /\ UNCHANGED <<results, idx, raising>>
    /\ UNCHANGED <<exit_code, material_ids, inputVars, quantity_changes, session_id,
                   session_active, mock_session_id, materials, clock, genVars,
                   mod_log, writes>>

\* One item of the loop, second half: the update and what is made of its response.
UpdateStep ==
    /\ pc = "update"
    /\ \E ch \in UpdateChannel :
          /\ ch # "ok" => faults < MaxFaults
          /\ faults' = IF ch = "ok" THEN faults ELSE faults + 1
          /\ \E material_id \in {Items[idx]} :
             \E update_xml \in {create_update_xml(session_id, material_id, last_updated,
                                                 quantity_changes[material_id], reason_id)} :
             \E out \in {ProcessRequest(materials, update_xml, clock)} :
             \E rsp \in {IF ch = "ok" THEN out.response ELSE NoStatusDoc} :
             \E err \in {parse_error(rsp)} :
             \E n \in {Len(Items)} :
                 /\ calls' = Append(calls, Call("ProcessRequest", update_xml, ch,
                                             IF ch \in {"raise", "raise_applied", "not_str"}
                                                \/ out.raised
                                             THEN None ELSE rsp))
                 /\ response' = IF ch \in {"raise", "raise_applied"} \/ out.raised
                                THEN response
                                ELSE IF ch = "not_str" THEN None ELSE rsp
                 /\ error' = IF ch \in {"raise", "raise_applied", "not_str"} \/ out.raised
                             THEN error ELSE err
                 /\ IF ch = "raise"
                    THEN UNCHANGED <<request_log, materials, clock, mod_log>>
                    ELSE /\ request_log' = Append(request_log, update_xml)
                         /\ materials' = out.materials
                         /\ clock' = IF out.applied THEN clock + 1 ELSE clock
                         /\ mod_log' = Append(mod_log, ModEntry(update_xml, out, "run"))
                 /\ IF ch \in {"raise", "raise_applied"} \/ out.raised
                    THEN /\ results' = Failed(material_id, ComError)
                         /\ pc' = AfterFailure(idx, n)
                         /\ idx' = idx + 1
                         /\ raising' = raising
                    ELSE IF ch = "not_str"
                    THEN /\ raising' = TRUE
                         /\ pc' = "close"
                         /\ UNCHANGED <<results, idx>>
                    ELSE IF err # None
                    THEN /\ results' = Failed(material_id, err)
                         /\ pc' = AfterFailure(idx, n)
                         /\ idx' = idx + 1
                         /\ raising' = raising
                    ELSE /\ results' = Succeeded(material_id)
                         /\ pc' = AfterItem(idx, n)
                         /\ idx' = idx + 1
                         /\ raising' = raising
    /\ UNCHANGED <<exit_code, material_ids, inputVars, quantity_changes, session_id, last_updated,
                   session_active, mock_session_id, genVars, writes>>

\* A finally block that closes nothing.
CloseCallsNone(sid, out) == <<>>

\* The calls of the finally block: jb.CloseSession(session_id).
CloseCalls(sid, out) == <<Call("CloseSession", sid, out, None)>>

\* A finally block that lets the exception of CloseSession through.
AfterCloseEscalates(exc, out) == IF exc \/ out = "raise" THEN "raised" ELSE "returned"

\* After the finally block (except: pass around CloseSession): the
\* exception on its way out of the loop goes on, else run_updates returns.
AfterClose(exc, out) == IF exc THEN "raised" ELSE "returned"

\* The finally block: CloseSession, whose exception is passed over; then
\* run_updates returns, or the exception on its way goes on.
CloseStep ==
    /\ pc = "close"
    /\ \E ch \in {"ok", "raise"} :
          /\ ch # "ok" => faults < MaxFaults
          /\ faults' = IF ch = "ok" THEN faults ELSE faults + 1
          /\ calls' = calls \o CloseCalls(session_id, ch)
          /\ IF ch = "ok"
             THEN session_active' = FALSE /\ mock_session_id' = None
             ELSE UNCHANGED <<session_active, mock_session_id>>
          /\ pc' = AfterClose(raising, ch)
    /\ UNCHANGED <<exit_code, material_ids, inputVars, runVars, request_log, materials, clock,
                   genVars, mod_log, writes>>

--------------------------------------------------------------------------
(* Another client of the store *)

\* Another client adjusts the material the run is working on, before the
\* run's query of it or between that query and the run's update, through
\* its own session and with the token the store holds at that moment.
OtherWriter ==
    /\ pc \in {"query", "update"}
    /\ writes < MaxWrites
    /\ \E id \in {Items[idx]} \cap DOMAIN materials, q \in OtherQuantities :
          \E xml \in {create_update_xml(<<"OTHER-SESSION">>, id, materials[id].last_updated,
                                       q, <<"RECEIPT">>)} :
          \E out \in {ProcessRequest(materials, xml, clock)} :
              /\ request_log' = Append(request_log, xml)
              /\ materials' = out.materials
              /\ clock' = IF out.applied THEN clock + 1 ELSE clock
              /\ mod_log' = Append(mod_log, ModEntry(xml, out, "other"))
    /\ writes' = writes + 1
    /\ UNCHANGED <<exit_code, pc, material_ids, inputVars, runVars, session_active,
                   mock_session_id, genVars, calls, faults>>

--------------------------------------------------------------------------
(* xml_generator.main *)

\* main after load_material_ids: sys.exit(1) on an empty list, else
\* A generate_update_package that starts from the entries of the manifest
\* it finds at the location.
PriorEntriesKept(found) == found.materials

\* "materials": [] -- the entries generate_update_package starts from,
\* whatever manifest is at the location.
PriorEntries(found) == <<>>

\* generate_update_package and the end of main.
Generate ==
    /\ pc = "gen_main"
    /\ IF material_ids = <<>>
       THEN /\ pc' = "gen_exit"
            /\ exit_code' = <<1>>
            /\ UNCHANGED <<manifest, files, quantity_changes>>
       ELSE /\ pc' = "gen_done"
            /\ exit_code' = <<0>>
            /\ quantity_changes' = CountMaterials(material_ids)
            /\ manifest' = [Manifest(material_ids, reason_id, clock)
                               EXCEPT !.materials = PriorEntries(manifest) \o @]
            /\ files' = WriteFiles(files, CountMaterials(material_ids),
                                   SortedKeys(DOMAIN CountMaterials(material_ids)),
                                   reason_id)
    /\ UNCHANGED <<response, error, material_ids, inputVars, idx, session_id,
                   last_updated, results,
                   raising, mockVars, histVars>>

--------------------------------------------------------------------------
(* update_inventory.main *)

\* main's validation, for a run started from the command line: sys.exit(1)
\* without a username or without a password, before run_updates is called.
MainReject ==
    /\ pc = "load"
    /\ program = "update_inventory"
    /\ material_ids = <<>>
    /\ username = <<>> \/ password = <<>>
    /\ pc' = "exited"
    /\ exit_code' = <<1>>
    /\ UNCHANGED <<material_ids, inputVars, runVars, mockVars, genVars, histVars>>

\* sys.exit(1 if results['failed'] or results['errors'] else 0)
ExitCode(res) == IF res.failed # <<>> \/ res.errors # <<>> THEN 1 ELSE 0

\* The end of main, for a run started from the command line (main has let
\* the username and password through): the summary and sys.exit; an
\* exception that left run_updates ends the process with status 1.
MainExit ==
    /\ pc \in {"returned", "raised"}
    /\ program = "update_inventory"
    /\ username # <<>> /\ password # <<>>
    /\ pc' = "exited"
    /\ exit_code' = IF pc = "raised" THEN <<1>> ELSE <<ExitCode(results)>>
    /\ UNCHANGED <<material_ids, inputVars, runVars, mockVars, genVars, histVars>>

--------------------------------------------------------------------------

Next ==
    \/ LoadLine
    \/ LoadEnd
    \/ Prepare
    \/ Connect
    \/ CreateSession
    \/ QueryStep
    \/ UpdateStep
    \/ CloseStep
    \/ OtherWriter
    \/ Generate
    \/ MainReject
    \/ MainExit

Spec == Init /\ [][Next]_vars

--------------------------------------------------------------------------
(* parse_error on its own: called with one response document *)

\* The status codes of the documents: success, two failures as the store
\* gives them, and a failure written with a leading zero.
StatusCodes == {"0", "5", "-1", "01"}

\* The StatusCode field of a document: none, empty, or one of the codes.
StatusParts ==
    {<<>>, <<"<StatusCode>", "</StatusCode>">>}
    \cup {<<"<StatusCode>", c, "</StatusCode>">> : c \in StatusCodes}

\* The StatusMessage field: none, empty, or a text.
MessageParts ==
    {<<>>, <<"<StatusMessage>", "</StatusMessage>">>,
     <<"<StatusMessage>", "Success", "</StatusMessage>">>,
     <<"<StatusMessage>", "Material not found: X", "</StatusMessage>">>}

\* The ErrorMessage field: none, or a text.
ErrorParts == {<<>>, <<"<ErrorMessage>", "Access denied", "</ErrorMessage>">>}

\* The record body: none, or one with a LastUpdated.
BodyParts == {<<>>, <<"<Material>", "<LastUpdated>", "2025-06-15T10:30:00",
                      "</LastUpdated>", "</Material>">>}

\* The response documents parse_error is called with.
Responses ==
    {<<XmlDecl, "<JBXML>", "<JBXMLRespond>">> \o st
        \o (IF first THEN m \o e ELSE e \o m) \o b
        \o <<"</JBXMLRespond>", "</JBXML>">> :
     st \in StatusParts, m \in MessageParts, e \in ErrorParts, b \in BodyParts,
     first \in BOOLEAN}

ParseInit ==
    /\ program = "parse_error"
    /\ dry_run = FALSE
    /\ username = <<>>
    /\ password = <<>>
    /\ reason_id = DEFAULT_REASON
    /\ pc = "parse"
    /\ response \in Responses
    /\ error = None
    /\ material_ids = <<>>
    /\ quantity_changes = EmptyDict
    /\ idx = 0
    /\ session_id = None
    /\ last_updated = None
    /\ results = EmptyResults
    /\ raising = FALSE
    /\ session_active = FALSE
    /\ mock_session_id = None
    /\ request_log = <<>>
    /\ materials = InitMaterials
    /\ clock = 1
    /\ manifest = NoManifest
    /\ files = EmptyDict
    /\ calls = <<>>
    /\ mod_log = <<>>
    /\ writes = 0
    /\ faults = 0
    /\ exit_code = None

\* error = parse_error(response)
ParseError ==
    /\ pc = "parse"
    /\ error' = parse_error(response)
    /\ pc' = "parsed"
    /\ UNCHANGED <<response, material_ids, inputVars, quantity_changes, idx,
                   session_id, last_updated, results, raising, mockVars, genVars,
                   histVars, exit_code>>

ParseNext == ParseError

ParseSpec == ParseInit /\ [][ParseNext]_vars

--------------------------------------------------------------------------
(* run_updates called twice over the same store, as test_workflow.py calls
   it on the installed MockJobBOSS: no channel fault, no other client *)

\* The requests the run sent to the channel.
RequestCalls == {i \in DOMAIN calls : calls[i].op = "ProcessRequest"}

\* The store has logged requests of an earlier run.
SecondRun == Len(request_log) > Cardinality(RequestCalls)

\* A first call of run_updates on the store as installed, with a username
\* and a password; the channel has no fault to give and there is no other
\* client (both budgets are spent).
RerunInit ==
    /\ program = "update_inventory"
    /\ dry_run = FALSE
    /\ username = <<"test_user">>
    /\ password = <<"test_pass">>
    /\ reason_id = DEFAULT_REASON
    /\ pc = "load"
    /\ material_ids = <<>>
    /\ quantity_changes = EmptyDict
    /\ idx = 0
    /\ session_id = None
    /\ last_updated = None
    /\ response = None
    /\ error = None
    /\ results = EmptyResults
    /\ raising = FALSE
    /\ session_active = FALSE
    /\ mock_session_id = None
    /\ request_log = <<>>
    /\ materials = InitMaterials
    /\ clock = 1
    /\ manifest = NoManifest
    /\ files = EmptyDict
    /\ calls = <<>>
    /\ mod_log = <<>>
    /\ writes = MaxWrites
    /\ faults = MaxFaults
    /\ exit_code = None

\* run_updates is called again with the same input file: its locals start
\* afresh, the store (win32com.client.Dispatch gives the same MockJobBOSS)
\* is as the first run left it.
Rerun ==
    /\ pc = "returned"
    /\ request_log # <<>>
    /\ ~SecondRun
    /\ pc' = "check_input"
    /\ quantity_changes' = EmptyDict
    /\ idx' = 0
    /\ session_id' = None
    /\ last_updated' = None
    /\ response' = None
    /\ error' = None
    /\ results' = EmptyResults
    /\ raising' = FALSE
    /\ calls' = <<>>
    /\ UNCHANGED <<exit_code, material_ids, inputVars, mockVars, genVars,
                   mod_log, writes, faults>>

RerunNext ==
    \/ LoadLine
    \/ LoadEnd
    \/ Prepare
    \/ Connect
    \/ CreateSession
    \/ QueryStep
    \/ UpdateStep
    \/ CloseStep
    \/ Rerun

RerunSpec == RerunInit /\ [][RerunNext]_vars

--------------------------------------------------------------------------
(* xml_generator.py run again into the same output directory *)

\* Generations into one output directory.
MaxGenerations == 2

\* The input of the next generation: the same file, the file without its
\* first line, or a file that names a material the first input cannot name.
NextInputs(ids) ==
    {ids, <<IdMat3>>} \cup (IF Len(ids) > 1 THEN {Tail(ids)} ELSE {})

RegenInit == Init /\ program = "xml_generator"

\* xml_generator.py is started again, later, with the same output
\* directory: the manifest and the files of the last generation are there.
Regenerate ==
    /\ pc = "gen_done"
    /\ clock < MaxGenerations
    /\ \E ids \in NextInputs(material_ids) : material_ids' = ids
    /\ \E r \in {<<>>, <<"TEST-REASON">>} : reason_id' = r
    /\ clock' = clock + 1
    /\ pc' = "gen_main"
    /\ quantity_changes' = EmptyDict
    /\ exit_code' = None
    /\ UNCHANGED <<program, dry_run, username, password, idx, session_id, last_updated,
                   response, error, results, raising, session_active, mock_session_id,
                   request_log, materials, genVars, histVars>>

RegenNext ==
    \/ LoadLine
    \/ LoadEnd
    \/ Generate
    \/ Regenerate

RegenSpec == RegenInit /\ [][RegenNext]_vars

--------------------------------------------------------------------------
(* Properties *)

\* The number of times x occurs in the list ids.
Occurrences(ids, x) == Cardinality({i \in DOMAIN ids : ids[i] = x})

\* count_materials has been applied to material_ids (an empty list leaves
\* quantity_changes empty).
Aggregated == pc \notin {"load", "check_input", "gen_main"}

\* CreateSession returned a session ID that is not empty.
SessionOpened ==
    \E i \in DOMAIN calls : calls[i].op = "CreateSession" /\ calls[i].out = "ok"

InSuccess(id) == \E i \in DOMAIN results.success : results.success[i].id = id
InFailed(id) == \E i \in DOMAIN results.failed : results.failed[i].id = id

\* How many entries the two outcome lists hold for id.
Recorded(id) ==
    Cardinality({i \in DOMAIN results.success : results.success[i].id = id})
    + Cardinality({i \in DOMAIN results.failed : results.failed[i].id = id})

\* C1: the aggregation of the input list has exactly the distinct input
\* identifiers as keys, each with minus its number of occurrences as value;
\* [A, A, A, B, B, C] gives {A: -3, B: -2, C: -1}.
C1_CountMaterials ==
    /\ CountMaterials(<<IdMat1, IdMat1, IdMat1, IdMat2, IdMat2, IdMat3>>)
          = (IdMat1 :> -3 @@ IdMat2 :> -2 @@ IdMat3 :> -1)
    /\ Aggregated =>
          /\ DOMAIN quantity_changes = {material_ids[i] : i \in DOMAIN material_ids}
          /\ \A x \in DOMAIN quantity_changes :
                quantity_changes[x] = -Occurrences(material_ids, x)

\* C1 witness: an identifier repeated around another one has been counted.
C1_Witness ==
    /\ Aggregated
    /\ material_ids = <<IdMat1, IdUnknown, IdMat1>>
    /\ quantity_changes = (IdMat1 :> -2 @@ IdUnknown :> -1)

\* C2: the absolute values of the aggregated deltas add up to the number
\* of input identifiers, and a generated manifest's total_pieces is the
\* length of its input_ids.
C2_TotalPieces ==
    /\ Aggregated =>
          SumOver([k \in DOMAIN quantity_changes |-> Abs(quantity_changes[k])],
                  DOMAIN quantity_changes) = Len(material_ids)
    /\ pc = "gen_done" =>
          /\ manifest.input_ids = material_ids
          /\ manifest.total_pieces = Len(manifest.input_ids)

\* C2 witness: a manifest for three pieces of two materials.
C2_Witness ==
    /\ pc = "gen_done"
    /\ manifest.total_pieces = 3
    /\ manifest.total_materials = 2

\* C3: in a run whose session was opened, the items the loop has gone
\* through are each recorded once, in success or in failed, the items it
\* has not reached are not recorded, and when run_updates returns every
\* aggregated identifier is recorded once.
C3_EveryItemRecordedOnce ==
    SessionOpened =>
        \A items \in {Items} :
            /\ \A j \in 1..Len(items) :
                  Recorded(items[j]) = IF j < idx THEN 1 ELSE 0
            /\ pc = "returned" =>
                  /\ idx = Len(items) + 1
                  /\ Len(results.success) + Len(results.failed)
                        = Cardinality(DOMAIN quantity_changes)

\* The reason of a failure that is a token conflict.
IsConflictReason(err) ==
    Len(err) = 4 /\ err[1] = "LastUpdated mismatch. Expected: " /\ err[3] = ", Got: "

\* C3 witness: a returned run with one success, one conflict and one
\* transport fault.
C3_Witness ==
    /\ pc = "returned"
    /\ Len(results.success) = 1
    /\ Len(results.failed) = 2
    /\ \E i, j \in DOMAIN results.failed :
          /\ IsConflictReason(results.failed[i].error)
          /\ results.failed[j].error = ComError

\* The quantities the store has added to id, by whatever client.
RECURSIVE AppliedSum(_, _)
AppliedSum(log, id) ==
    IF log = <<>> THEN 0
    ELSE (IF Head(log).id = id /\ Head(log).applied THEN Float(Head(log).qtext) ELSE 0)
         + AppliedSum(Tail(log), id)

\* C4: the store applies an update only if the token submitted with it is
\* the token it holds for the item; an update with another token is
\* answered with an error and leaves the material database as it was; and
\* every on-hand quantity is its first value plus all the quantities the
\* store applied to it (no applied adjustment is lost).
C4_ConditionalUpdate ==
    /\ [][\A i \in DOMAIN mod_log' :
              i > Len(mod_log) =>
                  /\ mod_log'[i].applied => mod_log'[i].submitted = mod_log'[i].expected
                  /\ mod_log'[i].submitted # mod_log'[i].expected =>
                        /\ materials' = materials
                        /\ ~mod_log'[i].applied]_vars
    /\ [](\A id \in DOMAIN materials :
              materials[id].on_hand
                 = InitMaterials[id].on_hand + AppliedSum(mod_log, id))

\* C4 witness: the run's update of a material was refused after another
\* client had changed that material, whose quantity is the one that client
\* left.
C4_Witness ==
    \E i, j \in DOMAIN mod_log :
        /\ i < j
        /\ mod_log[i].by = "other" /\ mod_log[i].applied
        /\ mod_log[j].by = "run" /\ ~mod_log[j].applied
        /\ mod_log[j].id = mod_log[i].id
        /\ mod_log[j].submitted # mod_log[j].expected
        /\ materials[mod_log[j].id].on_hand
              = InitMaterials[mod_log[j].id].on_hand + Float(mod_log[i].qtext)

\* The run's update of id reached the store with a token that was not the
\* store's.
Conflict(id) ==
    \E i \in DOMAIN mod_log :
        /\ mod_log[i].by = "run" /\ mod_log[i].id = id
        /\ mod_log[i].submitted # mod_log[i].expected

\* The calls of the run for id: its query and its update.
QueryCalls(id) ==
    UNION {{i \in DOMAIN calls : /\ calls[i].op = "ProcessRequest"
                                 /\ calls[i].arg = query_xml}
           : query_xml \in {create_query_xml(session_id, id)}}
UpdateCalls(id) ==
    UNION {{i \in DOMAIN calls : /\ calls[i].op = "ProcessRequest"
                                 /\ Len(calls[i].arg) > Len(head)
                                 /\ SubSeq(calls[i].arg, 1, Len(head)) = head}
           : head \in {UpdateHead(session_id, id)}}

\* The channel did what the store does on every call made for id.
ChannelOk(id) ==
    \A i \in QueryCalls(id) \cup UpdateCalls(id) : calls[i].out = "ok"

\* C5: when run_updates returns, an item whose update met a token other
\* than the store's, and whose response came back, is in failed and not in
\* success, with the store's mismatch message as reason; no failure of
\* another cause has a reason of that form; and every other item that the
\* channel served has the outcome it has without any conflict: success if
\* the store holds it, failed if not.
C5_ConflictFailure ==
    pc = "returned" =>
        /\ \A i \in DOMAIN mod_log :
              (/\ mod_log[i].by = "run"
               /\ mod_log[i].submitted # mod_log[i].expected
               /\ ChannelOk(mod_log[i].id)) =>
                  /\ ~InSuccess(mod_log[i].id)
                  /\ \E k \in DOMAIN results.failed :
                        /\ results.failed[k].id = mod_log[i].id
                        /\ results.failed[k].error
                              = <<"LastUpdated mismatch. Expected: ">>
                                \o mod_log[i].expected \o <<", Got: ">>
                                \o mod_log[i].submitted
        /\ \A k \in DOMAIN results.failed :
              IsConflictReason(results.failed[k].error) => Conflict(results.failed[k].id)
        /\ \A id \in DOMAIN quantity_changes :
              (SessionOpened /\ ChannelOk(id) /\ ~Conflict(id)) =>
                  IF id \in DOMAIN materials
                  THEN InSuccess(id) /\ ~InFailed(id)
                  ELSE InFailed(id) /\ ~InSuccess(id)

\* C5 witness: a returned run with a conflict on one item, a success after
\* it and a failure before it.
C5_Witness ==
    /\ pc = "returned"
    /\ Conflict(IdMat1) /\ ChannelOk(IdMat1)
    /\ InFailed(IdUnknown)
    /\ InSuccess(IdMat2)

\* The reason of a failure that says the material was not found.
IsNotFoundReason(err) ==
    \/ err = <<"Not found">>
    \/ Len(err) >= 1 /\ err[1] = "Material not found: "

\* The calls that closed the session.
CloseCallsMade == {i \in DOMAIN calls : calls[i].op = "CloseSession"}

\* C6: in a run without another client and without a channel fault, each
\* identifier the store holds ends in success, each identifier it does not
\* hold ends in failed with a not-found reason, and the session is closed
\* once, as the last call.
C6_KnownAndUnknown ==
    (pc = "returned" /\ SessionOpened /\ faults = 0 /\ writes = 0) =>
        /\ \A id \in DOMAIN quantity_changes :
              IF id \in DOMAIN materials
              THEN InSuccess(id) /\ ~InFailed(id)
              ELSE /\ ~InSuccess(id)
                   /\ \E k \in DOMAIN results.failed :
                         /\ results.failed[k].id = id
                         /\ IsNotFoundReason(results.failed[k].error)
        /\ Cardinality(CloseCallsMade) = 1
        /\ calls[Len(calls)].op = "CloseSession"

\* C6 witness: one identifier of the store and one unknown identifier gave
\* one success, one not-found failure and one CloseSession.
C6_Witness ==
    /\ pc = "returned" /\ faults = 0 /\ writes = 0
    /\ material_ids = <<IdMat1, IdUnknown>>
    /\ Len(results.success) = 1 /\ results.success[1].id = IdMat1
    /\ Len(results.failed) = 1 /\ results.failed[1].id = IdUnknown
    /\ IsNotFoundReason(results.failed[1].error)
    /\ Cardinality(CloseCallsMade) = 1

\* C7: after a run without another client and without a channel fault,
\* each material of the store that is in the input has its first on-hand
\* quantity minus its number of occurrences and a token other than its
\* first one, and each material that is not in the input is as it was.
C7_StoreAfterRun ==
    (pc = "returned" /\ SessionOpened /\ faults = 0 /\ writes = 0) =>
        \A x \in DOMAIN materials :
            IF x \in DOMAIN quantity_changes
            THEN /\ materials[x].on_hand
                       = InitMaterials[x].on_hand - Occurrences(material_ids, x)
                 /\ materials[x].last_updated # InitMaterials[x].last_updated
            ELSE materials[x] = InitMaterials[x]

\* C7 witness: three occurrences took material 1 from 100 to 97 in a run
\* where nothing failed.
C7_Witness ==
    /\ pc = "returned" /\ faults = 0 /\ writes = 0
    /\ material_ids = <<IdMat1, IdMat1, IdMat1>>
    /\ results.failed = <<>>
    /\ materials[IdMat1].on_hand = 97
    /\ materials[IdMat1].last_updated # InitMaterials[IdMat1].last_updated

\* C8: a dry run makes no call on the channel, leaves the store as it was
\* and returns empty lists.
C8_DryRun ==
    (program = "update_inventory" /\ dry_run) =>
        /\ pc \in {"load", "check_input", "returned", "exited"}
        /\ calls = <<>>
        /\ request_log = <<>>
        /\ materials = InitMaterials
        /\ ~session_active
        /\ results = EmptyResults

\* C8 witness: a dry run over a full input has returned.
C8_Witness ==
    /\ program = "update_inventory" /\ dry_run
    /\ pc = "returned"
    /\ Len(material_ids) >= 3

\* The channel object could not be created, or CreateSession raised or
\* returned an empty session ID.
SessionFailed ==
    \E i \in DOMAIN calls :
        \/ calls[i].op = "Dispatch" /\ calls[i].out = "raise"
        \/ calls[i].op = "CreateSession" /\ calls[i].out \in {"empty", "raise"}

\* C9: when the session cannot be established run_updates returns at once:
\* no request was sent, success and failed are empty, errors is not, and
\* the store is as it was.
C9_SessionFailure ==
    SessionFailed =>
        /\ pc \in {"returned", "exited"}
        /\ \A i \in DOMAIN calls : calls[i].op # "ProcessRequest"
        /\ request_log = <<>>
        /\ results.success = <<>>
        /\ results.failed = <<>>
        /\ results.errors # <<>>
        /\ materials = InitMaterials

\* C9 witness: CreateSession returned an empty session ID.
C9_Witness ==
    /\ pc = "returned"
    /\ \E i \in DOMAIN calls : calls[i].op = "CreateSession" /\ calls[i].out = "empty"
    /\ Len(results.errors) = 1

\* C10: once CreateSession has returned a session ID, CloseSession is not
\* called while the loop runs, and when run_updates has returned or let an
\* exception through CloseSession has been called once, as the last call,
\* with the session ID that CreateSession returned.
C10_ClosedOnce ==
    SessionOpened =>
        IF pc \in {"returned", "raised", "exited"}
        THEN /\ Cardinality(CloseCallsMade) = 1
             /\ calls[Len(calls)].op = "CloseSession"
             /\ \E i \in DOMAIN calls :
                   /\ calls[i].op = "CreateSession"
                   /\ calls[i].ret = calls[Len(calls)].arg
                   /\ calls[i].ret # <<>>
        ELSE CloseCallsMade = {}

\* C10 witness: an exception left run_updates after an item had failed, and
\* the session was closed.
C10_Witness ==
    /\ pc = "raised"
    /\ results.failed # <<>>
    /\ Cardinality(CloseCallsMade) = 1

\* run_updates has ended: it returned, or an exception left it, or the
\* process has exited.
Ended == pc \in {"returned", "raised", "exited"}

\* CreateSession was called on the channel, however it went.
SessionRequested == \E i \in DOMAIN calls : calls[i].op = "CreateSession"

\* C11: when a run that is not a dry run has ended after it asked the
\* channel for a session, CloseSession has been called, also when
\* CreateSession raised or returned an empty session ID.
C11_CloseOnEveryExit ==
    (Ended /\ ~dry_run /\ SessionRequested) => CloseCallsMade # {}

\* C11 witness: a run in which a session was opened and an item failed
\* has exited after a CloseSession that raised.
C11_Witness ==
    /\ pc = "exited"
    /\ SessionOpened
    /\ results.failed # <<>>
    /\ \E i \in CloseCallsMade : calls[i].out = "raise"

\* A fatal precondition of the run: no token in the input, no channel
\* object, or no session.
FatalPrecondition == material_ids = <<>> \/ SessionFailed

\* C12: when update_inventory has exited, its exit status is 1 if an item
\* failed or a fatal precondition occurred, whatever succeeded; so it is 0
\* only if no item failed and no fatal precondition occurred.
C12_ExitStatus ==
    (program = "update_inventory" /\ pc = "exited") =>
        (results.failed # <<>> \/ FatalPrecondition => exit_code = <<1>>)

\* C12 witness: a run with one item succeeded and one failed has exited
\* with status 1.
C12_Witness ==
    /\ program = "update_inventory" /\ pc = "exited"
    /\ results.success # <<>> /\ results.failed # <<>>
    /\ results.errors = <<>>
    /\ exit_code = <<1>>

\* The response returned by call i carried status code 0.
StatusZero(i) ==
    /\ calls[i].out \in {"ok", "no_status"}
    /\ Contains(calls[i].ret, <<"<StatusCode>", "0", "</StatusCode>">>)

\* C13: an identifier is in success only if the response to its update
\* request carried status code 0; and an identifier for which a response
\* without a status field came back, at the query or at the update, is in
\* failed with a reason other than not found, and not in success.
C13_NoStatusIsFailure ==
    \A id \in DOMAIN quantity_changes :
        /\ InSuccess(id) => \E i \in UpdateCalls(id) : StatusZero(i)
        /\ \A i \in QueryCalls(id) \cup UpdateCalls(id) :
              calls[i].out \in {"no_status", "no_status_token"} =>
                  /\ ~InSuccess(id)
                  /\ \E k \in DOMAIN results.failed :
                        /\ results.failed[k].id = id
                        /\ ~IsNotFoundReason(results.failed[k].error)

\* C13 witness: responses without a status field have come back: one at an
\* update, for an identifier that the run then recorded.
C13_Witness ==
    /\ pc = "returned"
    /\ \E i \in UpdateCalls(IdMat1) : calls[i].out = "no_status"
    /\ Recorded(IdMat1) = 1
    /\ results.failed # <<>>

\* C14: the requests of a run follow the ascending order of the
\* identifiers: every request is for an identifier of the input, a later
\* request is never for a smaller identifier, each update request comes
\* directly after the query request of the same identifier, and the
\* identifiers queried so far are the first ones of the sorted distinct
\* input, none left out, so the order is a function of the input alone.
C14_RequestOrder ==
    \A items \in {Items} :
    \A queries \in {[k \in DOMAIN items |-> QueryCalls(items[k])]} :
    \A updates \in {[k \in DOMAIN items |-> UpdateCalls(items[k])]} :
        /\ \A k, l \in DOMAIN items : k < l => IdRank(items[k]) < IdRank(items[l])
        /\ \A i \in RequestCalls : \E k \in DOMAIN items : i \in queries[k] \/ i \in updates[k]
        /\ \A k, l \in DOMAIN items :
              k < l => \A i \in queries[k] \cup updates[k], j \in queries[l] \cup updates[l] :
                          i < j
        /\ \A k \in DOMAIN items : \A i \in updates[k] : i - 1 \in queries[k]
        /\ \A k \in DOMAIN items :
              queries[k] # {} => \A m \in 1..(k - 1) : queries[m] # {}

\* C14 witness: an input that is not in ascending order was processed:
\* material 1, read last, was queried and updated before material 2.
C14_Witness ==
    /\ pc = "returned"
    /\ material_ids = <<IdMat2, IdMarkup, IdMat1>>
    /\ \E i \in UpdateCalls(IdMat1), j \in QueryCalls(IdMat2) : i < j
    /\ \E i \in UpdateCalls(IdMat2), j \in QueryCalls(IdMarkup) : i < j

\* C15: in a run each distinct identifier has at most one query request
\* and at most one update request, whatever its number of occurrences and
\* whatever its outcome; each identifier the loop is done with has exactly
\* one query request, and so has every identifier when run_updates returns
\* from the loop.
C15_NoRetry ==
    /\ \A id \in DOMAIN quantity_changes :
          \A queries \in {Cardinality(QueryCalls(id))} :
              /\ queries <= 1
              /\ Cardinality(UpdateCalls(id)) <= 1
              /\ Recorded(id) = 1 => queries = 1
              /\ (pc = "returned" /\ SessionOpened) => queries = 1
    /\ Cardinality(RequestCalls) <= 2 * Cardinality(DOMAIN quantity_changes)

\* C15 witness: an identifier that occurs twice met a conflict, and the run
\* returned with one query and one update for it.
C15_Witness ==
    /\ pc = "returned"
    /\ Occurrences(material_ids, IdMat1) = 2
    /\ Conflict(IdMat1) /\ InFailed(IdMat1)
    /\ Cardinality(QueryCalls(IdMat1)) = 1
    /\ Cardinality(UpdateCalls(IdMat1)) = 1
    /\ Len(Items) = 2

\* C16: with no token in the input the run does not start. After
\* load_material_ids returned an empty list, run_updates makes no call on
\* the channel (no channel object, no session, no request), the store is
\* as it was, and success and failed are empty; and xml_generator.main
\* exits with status 1 without a manifest or a file.
C16_EmptyInput ==
    (material_ids = <<>> /\ pc # "load") =>
        IF program = "update_inventory"
        THEN /\ pc \in {"check_input", "returned", "exited"}
             /\ calls = <<>>
             /\ request_log = <<>>
             /\ materials = InitMaterials
             /\ ~session_active
             /\ results.success = <<>>
             /\ results.failed = <<>>
        ELSE /\ pc \in {"gen_main", "gen_exit"}
             /\ manifest = NoManifest
             /\ files = EmptyDict
             /\ pc = "gen_exit" => exit_code = <<1>>

\* C16 witness: a run over an input without tokens, not a dry run and with
\* a username and a password, has returned.
C16_Witness ==
    /\ program = "update_inventory"
    /\ material_ids = <<>>
    /\ ~dry_run /\ username # <<>> /\ password # <<>>
    /\ pc = "returned"

\* The identifier and the quantity the store reads in an update document
\* (_handle_material_mod: the ID of MaterialMod, float of Quantity); None
\* where it finds none.
ParsedId(doc) == ReSearchModId(doc)
ParsedQuantity(doc) ==
    LET qtext == ReSearch(doc, "<Quantity>", "</Quantity>")
    IN  IF qtext # None /\ IsFloat(qtext) THEN <<Float(qtext)>> ELSE None

\* Entry k of the manifest, read back from its update document, gives the
\* identifier and the delta of the aggregation.
RoundTrips(k) ==
    LET e == manifest.materials[k]
        doc == files[e.update_file]
    IN  /\ e.update_file \in DOMAIN files
        /\ e.material_id \in DOMAIN quantity_changes
        /\ ParsedId(doc) = e.material_id
        /\ ParsedQuantity(doc) = <<quantity_changes[e.material_id]>>

\* C17: when the package is generated, every identifier of the aggregation
\* has a manifest entry, and the update document of every entry, parsed as
\* the store parses it, gives back the entry's identifier and delta.
C17_RoundTrip ==
    pc = "gen_done" =>
        /\ {manifest.materials[k].material_id : k \in DOMAIN manifest.materials}
              = DOMAIN quantity_changes
        /\ \A k \in DOMAIN manifest.materials : RoundTrips(k)

\* C17 witness: a package of two identifiers without markup characters,
\* one occurring twice, whose documents give back identifier and delta.
C17_Witness ==
    /\ pc = "gen_done"
    /\ material_ids = <<IdMat1, IdUnknown, IdMat1>>
    /\ Len(manifest.materials) = 2
    /\ \A k \in DOMAIN manifest.materials : RoundTrips(k)
    /\ ParsedQuantity(files[update_file(IdMat1)]) = <<-2>>

\* C18: the manifest of a generated package has total_materials equal to
\* the number of distinct identifiers of the input, one entry per distinct
\* identifier, the entries in strictly ascending identifier order, each
\* entry with the identifier's number of occurrences and its negation as
\* quantity_change, the reason code the caller gave, and the input list
\* itself as input_ids.
C18_Manifest ==
    pc = "gen_done" =>
        LET ms == manifest.materials
            distinct == {material_ids[i] : i \in DOMAIN material_ids}
        IN  /\ manifest.total_materials = Cardinality(distinct)
            /\ Len(ms) = Cardinality(distinct)
            /\ {ms[k].material_id : k \in DOMAIN ms} = distinct
            /\ \A k, l \in DOMAIN ms :
                  k < l => IdRank(ms[k].material_id) < IdRank(ms[l].material_id)
            /\ \A k \in DOMAIN ms :
                  /\ ms[k].occurrences = Occurrences(material_ids, ms[k].material_id)
                  /\ ms[k].quantity_change = -ms[k].occurrences
            /\ manifest.reason_id = reason_id
            /\ manifest.input_ids = material_ids

\* C18 witness: a package for an input that is not sorted and repeats an
\* identifier, with the reason code of the test.
C18_Witness ==
    /\ pc = "gen_done"
    /\ material_ids = <<IdMat2, IdMat1, IdMat2>>
    /\ reason_id = <<"TEST-REASON">>
    /\ manifest.total_materials = 2
    /\ manifest.materials[1].material_id = IdMat1
    /\ manifest.materials[2].occurrences = 2
    /\ manifest.materials[2].quantity_change = -2

\* The response to query call q signalled success and carried a token.
Verified(q) ==
    /\ StatusZero(q)
    /\ parse_last_updated(calls[q].ret) # None

\* C19: every update request of the run directly follows a query response
\* for the same identifier that signalled status 0 and carried a
\* LastUpdated, and is the update document made of that LastUpdated, the
\* identifier's aggregated delta and the reason code; and for an identifier
\* whose query response did not do so (not found, error status, exception,
\* no status) no update request is sent.
C19_UpdateOnlyAfterVerified ==
    \A id \in DOMAIN quantity_changes :
        /\ \A u \in UpdateCalls(id) :
              /\ u - 1 \in QueryCalls(id)
              /\ Verified(u - 1)
              /\ calls[u].arg =
                    create_update_xml(session_id, id,
                                      parse_last_updated(calls[u - 1].ret),
                                      quantity_changes[id], reason_id)
              /\ ReSearch(calls[u].arg, "<LastUpdated>", "</LastUpdated>")
                    = ReSearch(calls[u - 1].ret, "<LastUpdated>", "</LastUpdated>")
              /\ ParsedQuantity(calls[u].arg) = <<quantity_changes[id]>>
        /\ \A q \in QueryCalls(id) : ~Verified(q) => UpdateCalls(id) = {}

\* C19 witness: after another client's write, the run's query returned the
\* new token and its update carried that token and the delta -2.
C19_Witness ==
    /\ pc = "returned"
    /\ writes = 1 /\ faults = 0
    /\ \E u \in UpdateCalls(IdMat2) :
          /\ Verified(u - 1)
          /\ ReSearch(calls[u].arg, "<LastUpdated>", "</LastUpdated>")
                # InitMaterials[IdMat2].last_updated
          /\ ParsedQuantity(calls[u].arg) = <<-2>>
    /\ InSuccess(IdMat2)
    /\ InFailed(IdUnknown) /\ UpdateCalls(IdUnknown) = {}

\* The text of a field of a document; None when the field is absent or
\* empty.
StatusCodeOf(doc) == ReSearch(doc, "<StatusCode>", "</StatusCode>")
StatusMessageOf(doc) == ReSearch(doc, "<StatusMessage>", "</StatusMessage>")
ErrorMessageOf(doc) == ReSearch(doc, "<ErrorMessage>", "</ErrorMessage>")

\* C20: for a response with a status code, parse_error returns None
\* exactly when the code is 0, and for any other code it returns the
\* StatusMessage text if there is one, else the ErrorMessage text if there
\* is one, else "Status code: " and the code.
C20_ParseError ==
    (pc = "parsed" /\ StatusCodeOf(response) # None) =>
        /\ error = None <=> StatusCodeOf(response) = <<"0">>
        /\ StatusCodeOf(response) # <<"0">> =>
              error = IF StatusMessageOf(response) # None
                      THEN StatusMessageOf(response)
                      ELSE IF ErrorMessageOf(response) # None
                      THEN ErrorMessageOf(response)
                      ELSE <<"Status code: ">> \o StatusCodeOf(response)

\* C20 witness: a response with status code 5, an empty StatusMessage and
\* no ErrorMessage was parsed to "Status code: 5".
C20_Witness ==
    /\ pc = "parsed"
    /\ StatusCodeOf(response) = <<"5">>
    /\ StatusMessageOf(response) = None /\ ErrorMessageOf(response) = None
    /\ Contains(response, <<"<StatusMessage>", "</StatusMessage>">>)
    /\ error = <<"Status code: ", "5">>

--------------------------------------------------------------------------
\* The run's update requests that the store rejected for their token and
\* whose response the channel delivered: entries of mod_log.
RejectedForToken ==
    {i \in DOMAIN mod_log :
        /\ mod_log[i].by = "run"
        /\ ~mod_log[i].applied
        /\ mod_log[i].expected # None
        /\ mod_log[i].submitted # mod_log[i].expected
        /\ \A c \in UpdateCalls(mod_log[i].id) : calls[c].out = "ok"}

\* C21: for every update of the run that the store rejected because the
\* submitted token was not its current token, and whose response came
\* back, the item is in failed and not in success, with a reason that
\* contains the token the store holds and the token the run submitted,
\* which is the one its query had read.
C21_ReasonNamesBothTokens ==
    \A i \in RejectedForToken :
        /\ ~InSuccess(mod_log[i].id)
        /\ \E k \in DOMAIN results.failed :
              /\ results.failed[k].id = mod_log[i].id
              /\ Contains(results.failed[k].error, mod_log[i].expected)
              /\ Contains(results.failed[k].error, mod_log[i].submitted)
              /\ mod_log[i].expected = materials[mod_log[i].id].last_updated
              /\ \E c \in QueryCalls(mod_log[i].id) :
                    parse_last_updated(calls[c].ret) = mod_log[i].submitted

\* C21 witness: another client changed material 1 between the run's query
\* and its update; the update was rejected and the failure names the
\* token of the other client's write and the token the run had read.
C21_Witness ==
    /\ pc = "returned"
    /\ RejectedForToken # {}
    /\ \E k \in DOMAIN results.failed :
          /\ results.failed[k].id = IdMat1
          /\ results.failed[k].error
                = <<"LastUpdated mismatch. Expected: ">> \o materials[IdMat1].last_updated
                  \o <<", Got: ">> \o InitMaterials[IdMat1].last_updated
          /\ materials[IdMat1].last_updated # InitMaterials[IdMat1].last_updated

--------------------------------------------------------------------------
\* The step just taken called CloseSession, and the call raised.
CloseRaised ==
    /\ Len(calls') = Len(calls) + 1
    /\ calls'[Len(calls')].op = "CloseSession"
    /\ calls'[Len(calls')].out = "raise"

\* C22: the finally block leaves the outcome lists as the loop left them
\* and goes where the loop was going, whatever CloseSession does: when
\* CloseSession raises and no exception was on its way, run_updates
\* returns, with the success, failed and errors it would return after a
\* CloseSession that succeeds; main's exit status, a function of these
\* lists, is the same too.
C22_CloseNeverEscalates ==
    [][/\ pc = "close" =>
            /\ results' = results
            /\ raising' = raising
            /\ pc' = IF raising THEN "raised" ELSE "returned"
       /\ CloseRaised =>
            /\ pc = "close"
            /\ ~raising => pc' = "returned"
            /\ materials' = materials
       /\ (pc = "returned" /\ pc' = "exited") => exit_code' = <<ExitCode(results)>>]_vars

\* C22 witness: run_updates has returned one success and one failure
\* after a CloseSession that raised.
C22_Witness ==
    /\ pc = "returned"
    /\ calls # <<>>
    /\ calls[Len(calls)].op = "CloseSession"
    /\ calls[Len(calls)].out = "raise"
    /\ Len(results.success) = 1
    /\ Len(results.failed) = 1
    /\ results.errors = <<>>

--------------------------------------------------------------------------
\* The documents generate_update_package renders for a manifest entry.
QueryDocOf(entry) == create_material_query_xml(<<"{{SESSION_ID}}">>, entry.material_id)
UpdateDocOf(entry) ==
    create_material_mod_xml(<<"{{SESSION_ID}}">>, entry.material_id,
                            <<"{{LAST_UPDATED}}">>, entry.quantity_change, manifest.reason_id)

\* C23: when the package is generated, the entries of distinct
\* identifiers name distinct query files and distinct update files, the
\* file each entry names holds the document rendered for the entry's own
\* identifier and quantity, and the output holds total_materials query
\* documents and as many update documents.
C23_OneDocumentPerIdentifier ==
    pc = "gen_done" =>
        \A ms \in {manifest.materials} :
            /\ \A k, l \in DOMAIN ms :
                  k # l => /\ ms[k].query_file # ms[l].query_file
                           /\ ms[k].update_file # ms[l].update_file
            /\ \A k \in DOMAIN ms :
                  /\ ms[k].query_file \in DOMAIN files
                  /\ ms[k].update_file \in DOMAIN files
                  /\ files[ms[k].query_file] = QueryDocOf(ms[k])
                  /\ files[ms[k].update_file] = UpdateDocOf(ms[k])
            /\ Cardinality(DOMAIN files) = 2 * manifest.total_materials

\* C23 witness: a package of three identifiers whose file names differ,
\* one of them with a markup character: six documents, each entry's own.
C23_Witness ==
    /\ pc = "gen_done"
    /\ material_ids = <<IdMat2, IdMarkup, IdMat1>>
    /\ manifest.total_materials = 3
    /\ Cardinality(DOMAIN files) = 6
    /\ \A k \in DOMAIN manifest.materials :
          /\ files[manifest.materials[k].query_file] = QueryDocOf(manifest.materials[k])
          /\ files[manifest.materials[k].update_file] = UpdateDocOf(manifest.materials[k])

--------------------------------------------------------------------------
\* sum(r['qty'] for r in results['success'])
RECURSIVE NetTotal(_)
NetTotal(success) ==
    IF success = <<>> THEN 0 ELSE Head(success).qty + NetTotal(Tail(success))

\* The on-hand quantity the store has gained over all its materials.
StoreChange ==
    SumOver([id \in DOMAIN materials |-> materials[id].on_hand - InitMaterials[id].on_hand],
            DOMAIN materials)

\* The run's update of id met an exception raised by the channel.
UpdateRaised(id) ==
    \E c \in UpdateCalls(id) : calls[c].out \in {"raise", "raise_applied"}

\* C24: when run_updates has returned from a run with no other client,
\* every identifier in success is a material whose on-hand has changed by
\* the identifier's delta, every material in failed has the on-hand and
\* the token it had before the run, a transport fault on the update call
\* included, and the sum of the deltas in success is the change of the
\* store's on-hand.
C24_OutcomesAgreeWithStore ==
    (pc = "returned" /\ SessionOpened /\ writes = 0) =>
        /\ \A k \in DOMAIN results.success :
              \A id \in {results.success[k].id} :
                 /\ id \in DOMAIN materials
                 /\ results.success[k].qty = quantity_changes[id]
                 /\ materials[id].on_hand = InitMaterials[id].on_hand + quantity_changes[id]
        /\ \A k \in DOMAIN results.failed :
              \A id \in {results.failed[k].id} :
                 id \in DOMAIN materials =>
                    /\ materials[id].on_hand = InitMaterials[id].on_hand
                    /\ materials[id].last_updated = InitMaterials[id].last_updated
        /\ NetTotal(results.success) = StoreChange

\* C24 witness: a run with no other client has returned one success and
\* one failure, the failure being an exception raised on the update call
\* before the store handled the request; the lists agree with the store.
C24_Witness ==
    /\ pc = "returned" /\ writes = 0
    /\ material_ids = <<IdMat1, IdMat2, IdMat2>>
    /\ InSuccess(IdMat2) /\ InFailed(IdMat1)
    /\ UpdateRaised(IdMat1)
    /\ materials[IdMat1] = InitMaterials[IdMat1]
    /\ materials[IdMat2].on_hand = InitMaterials[IdMat2].on_hand - 2
    /\ NetTotal(results.success) = -2
    /\ StoreChange = -2

--------------------------------------------------------------------------
\* The calls in which CreateSession returned a session ID that is not empty.
SessionCalls ==
    {c \in DOMAIN calls : /\ calls[c].op = "CreateSession"
                          /\ calls[c].out = "ok"
                          /\ calls[c].ret # <<>>}

\* C25: every ProcessRequest call of the run comes after the one
\* CreateSession call that returned a session ID and before every
\* CloseSession call, and its request carries that session ID in its
\* SessionID field; while the loop is at work the store's session is
\* active under that ID, and the requests the store has logged are those
\* of the run and of the other client.
C25_RequestsWithinSession ==
    /\ Cardinality(SessionCalls) <= 1
    /\ \A i \in RequestCalls :
          /\ \E c \in SessionCalls :
                /\ c < i
                /\ ReSearch(calls[i].arg, "<SessionID>", "</SessionID>") = calls[c].ret
          /\ \A j \in CloseCallsMade : i < j
    /\ pc \in {"query", "update"} =>
          /\ session_active
          /\ session_id # <<>>
          /\ mock_session_id = session_id
          /\ SessionCalls # {}
          /\ CloseCallsMade = {}
    /\ Len(request_log) <= Cardinality(RequestCalls) + writes

\* C25 witness: a returned run of two items, four requests between the
\* CreateSession call and the CloseSession call, all with the session ID.
C25_Witness ==
    /\ pc = "returned"
    /\ Cardinality(RequestCalls) = 4
    /\ Cardinality(SessionCalls) = 1
    /\ Cardinality(CloseCallsMade) = 1
    /\ \A i \in RequestCalls :
          /\ ReSearch(calls[i].arg, "<SessionID>", "</SessionID>") = session_id
          /\ \A c \in SessionCalls : c < i
          /\ \A j \in CloseCallsMade : i < j

--------------------------------------------------------------------------
\* How many runs have sent their requests to the store.
RunsStarted == IF SecondRun THEN 2 ELSE 1

\* C26: with no channel fault and no other client the store never meets a
\* token other than its own: every update request of a run directly
\* follows the query of the same identifier and submits the token that
\* query returned, every update is applied, and when a run whose session
\* was opened returns, every input identifier the store holds is in
\* success and not in failed; this is so in the first run and in a second
\* run over the store the first one left, after which each such material
\* has twice its delta added to its first on-hand quantity.
C26_NoConflictWithoutInterference ==
    /\ \A i \in DOMAIN mod_log :
          /\ mod_log[i].by = "run"
          /\ mod_log[i].submitted = mod_log[i].expected
          /\ mod_log[i].applied
    /\ \A id \in DOMAIN quantity_changes :
          \A c \in UpdateCalls(id) :
              /\ c - 1 \in QueryCalls(id)
              /\ ReSearch(calls[c].arg, "<LastUpdated>", "</LastUpdated>")
                    = parse_last_updated(calls[c - 1].ret)
    /\ (pc = "returned" /\ SessionOpened) =>
          /\ \A k \in DOMAIN results.failed : ~IsConflictReason(results.failed[k].error)
          /\ \A id \in DOMAIN quantity_changes \cap DOMAIN materials :
                /\ InSuccess(id) /\ ~InFailed(id)
                /\ materials[id].on_hand
                      = InitMaterials[id].on_hand + RunsStarted * quantity_changes[id]

\* C26 witness: a second run has returned; material 1, twice in the input,
\* is in success again, was updated with the token the first run's update
\* gave it, and has lost four pieces in all.
C26_Witness ==
    /\ pc = "returned"
    /\ SecondRun
    /\ material_ids = <<IdMat1, IdUnknown, IdMat1>>
    /\ InSuccess(IdMat1)
    /\ materials[IdMat1].on_hand = 96
    /\ Len(mod_log) = 2
    /\ mod_log[2].submitted # InitMaterials[IdMat1].last_updated
    /\ mod_log[2].submitted = mod_log[2].expected

--------------------------------------------------------------------------
\* The documents the direct executor renders for a manifest entry when it
\* is given the placeholders of the generated documents.
ExecutorQueryDoc(entry) == create_query_xml(<<"{{SESSION_ID}}">>, entry.material_id)
ExecutorUpdateDoc(entry) ==
    create_update_xml(<<"{{SESSION_ID}}">>, entry.material_id, <<"{{LAST_UPDATED}}">>,
                      entry.quantity_change, manifest.reason_id)

\* A request document from its MaterialQueryRq or MaterialModRq element on.
RequestBody(doc) ==
    SubSeq(doc,
           CHOOSE p \in DOMAIN doc :
               /\ doc[p] \in {"<MaterialQueryRq>", "<MaterialModRq>"}
               /\ \A q \in 1..(p - 1) : doc[q] \notin {"<MaterialQueryRq>", "<MaterialModRq>"},
           Len(doc))

\* The SessionID field of a request document, or None.
SessionField(doc) == ReSearch(doc, "<SessionID>", "</SessionID>")

\* C27: every request of the direct executor carries the session ID in a
\* SessionID field, and so does every document of a generated package,
\* which is the document the direct executor renders for the same
\* identifier, tokens, quantity and cause code.
C27_SameDocuments ==
    /\ \A i \in RequestCalls : SessionField(calls[i].arg) = session_id
    /\ pc = "gen_done" =>
          \A k \in DOMAIN manifest.materials :
             \A entry \in {manifest.materials[k]} :
                /\ SessionField(QueryDocOf(entry)) = <<"{{SESSION_ID}}">>
                /\ SessionField(UpdateDocOf(entry)) = <<"{{SESSION_ID}}">>
                /\ QueryDocOf(entry) = ExecutorQueryDoc(entry)
                /\ UpdateDocOf(entry) = ExecutorUpdateDoc(entry)

\* C27 witness: a package for material 1, twice in the input, with the
\* cause code of the test: its documents hold the identifier, the token
\* placeholder, the cause code and the signed quantity in the fields the
\* executor uses, and are the executor's documents from the request
\* element on.
C27_Witness ==
    /\ pc = "gen_done"
    /\ material_ids = <<IdMat1, IdMat1>>
    /\ reason_id = <<"TEST-REASON">>
    /\ \A entry \in {manifest.materials[1]} :
          /\ ReSearch(QueryDocOf(entry), "<ID>", "</ID>") = IdMat1
          /\ ReSearchModId(UpdateDocOf(entry)) = IdMat1
          /\ ReSearch(UpdateDocOf(entry), "<LastUpdated>", "</LastUpdated>")
                = <<"{{LAST_UPDATED}}">>
          /\ ReSearch(UpdateDocOf(entry), "<Quantity>", "</Quantity>") = <<"-2">>
          /\ Contains(UpdateDocOf(entry), <<"<ReasonRef ID=\"", "TEST-REASON", "\"/>">>)
          /\ RequestBody(QueryDocOf(entry)) = RequestBody(ExecutorQueryDoc(entry))
          /\ RequestBody(UpdateDocOf(entry)) = RequestBody(ExecutorUpdateDoc(entry))

--------------------------------------------------------------------------
\* The identifiers of the entries of a manifest.
EntryIds(m) == {m.materials[k].material_id : k \in DOMAIN m.materials}

\* The step is a generation that wrote a package.
Generated == pc = "gen_main" /\ pc' = "gen_done"

\* C28: a generation writes a manifest whose entries are those of the
\* current input: one per distinct input identifier and no other, so no
\* entry of the manifest found at the location for an identifier that is
\* not in the input; the documents the entries name are rendered from the
\* identifiers and counts of the input and the cause code; a generation
\* from the input and cause code of the last one gives the same entries,
\* totals and documents; and no call is made on the external system.
C28_NoMerge ==
    [][Generated =>
          \A ids \in {{material_ids[i] : i \in DOMAIN material_ids}} :
             /\ EntryIds(manifest') = ids
             /\ Len(manifest'.materials) = Cardinality(ids)
             /\ manifest'.input_ids = material_ids
             /\ manifest'.reason_id = reason_id
             /\ \A k \in DOMAIN manifest.materials :
                   manifest.materials[k].material_id \notin ids =>
                      \A l \in DOMAIN manifest'.materials :
                          manifest'.materials[l] # manifest.materials[k]
             /\ \A l \in DOMAIN manifest'.materials :
                   \A entry \in {manifest'.materials[l]} :
                      \E id \in ids :
                         /\ files'[entry.query_file]
                               = create_material_query_xml(<<"{{SESSION_ID}}">>, id)
                         /\ files'[entry.update_file]
                               = create_material_mod_xml(<<"{{SESSION_ID}}">>, id,
                                    <<"{{LAST_UPDATED}}">>,
                                    -Occurrences(material_ids, id), reason_id)
             /\ (manifest.input_ids = material_ids /\ manifest.reason_id = reason_id) =>
                   /\ manifest'.materials = manifest.materials
                   /\ manifest'.total_materials = manifest.total_materials
                   /\ manifest'.total_pieces = manifest.total_pieces
                   /\ \A l \in DOMAIN manifest'.materials :
                         /\ files'[manifest'.materials[l].query_file]
                               = files[manifest.materials[l].query_file]
                         /\ files'[manifest'.materials[l].update_file]
                               = files[manifest.materials[l].update_file]
             /\ calls' = <<>> /\ request_log' = <<>>
             /\ materials' = InitMaterials /\ ~session_active']_vars

\* C28 witness: a second generation, from an input that names only
\* material 3, into a directory that holds the package of two other
\* materials: the new manifest has the one entry of material 3, the files
\* of the earlier package are still in the directory, and nothing was sent.
C28_Witness ==
    /\ pc = "gen_done"
    /\ clock = 2
    /\ material_ids = <<IdMat3>>
    /\ EntryIds(manifest) = {IdMat3}
    /\ manifest.total_materials = 1
    /\ Cardinality(DOMAIN files) = 6
    /\ query_file(IdMat1) \in DOMAIN files
    /\ calls = <<>> /\ request_log = <<>>

====
